---- MODULE Spec2Model ----
(***************************************************************************)
(* Family tree application (camakoglu/aile): the family partition detector *)
(* of src/utils/familyDetection.ts and the layout relaxation engine        *)
(* (DagRelaxation).                                                        *)
(*                                                                         *)
(* Strings are sequences of tokens: "u", "_", "mem", "family" and decimal  *)
(* numerals.  "mem_1" is <<"mem","_","1">>, "u_1_0" is                     *)
(* <<"u","_","1","_","0">>.  String operations (startsWith, the regular    *)
(* expression of parseUnionId, template literals) act on these sequences.  *)
(***************************************************************************)
EXTENDS Integers, Sequences, FiniteSets, TLC

VARIABLES
    data,               \* FamilyData: start, keys (Object.keys order), is_spouse, gender, links
    pc,                 \* position in detectFamilies
    rootMemberIds,      \* result of findRootNodes
    families,           \* Family[] (id, rootMemberId, index, memberCount)
    familyMemberSets,   \* family index -> Set of member ids
    fi,                 \* family being processed by the current forEach
    queue,              \* BFS queue of assignDescendants
    visited,            \* visited set of assignDescendants
    processed,          \* history: ids added to the family by the running traversal, in order
    memberToFamilies,   \* Map member id -> family ids
    memberBirthFamily,  \* Map member id -> birth family id (patrilineal variant)
    familyColors,       \* Map family id -> color
    active,             \* last call of getDefaultActiveFamilies: arguments and result
    nodes,              \* D3Node[] of the dag: x (mutated by the layout) and y (level)
    edges,              \* structural connections of the dag, as pairs of node indices
    calls,              \* history: completed layout calls (op, nodes before, nodes after)
    ret,                \* last value returned by get_pressure / get_gravity
    colorCalls,         \* history: calls of generateFamilyColor (index, value)
    state,              \* FamilyTreeStore.state (AppState)
    listeners,          \* FamilyTreeStore.listeners (a Set of listener functions)
    debounceTimer,      \* time at which the pending persistState timeout is due, or NoTimer
    localStorage,       \* the three items the store reads and writes
    now,                \* time in milliseconds
    unsubscription,     \* history: per listener, "called" once its unsubscribe function has
                        \* been called and "resubscribed" once it is subscribed again
    received,           \* history: per listener, number of invocations and the last state passed
    storeCalls,         \* history: number of store actions called
    lastCall,           \* history: the last store action called
    notifiedAt,         \* history: time of the last call that ended with notify(), or Never
    writes,             \* history: the writes of the timeout callback (time, items written)
    loader              \* a call of loadFamilyData: its argument, what the sources answer,
                        \* its position, the sources consulted so far and its result

workVars == <<data, pc, rootMemberIds, families, familyMemberSets, fi, queue, visited,
              processed, memberToFamilies, memberBirthFamily, familyColors>>

detectorVars == <<workVars, active>>

layoutVars == <<nodes, edges, calls, ret>>

colorVars == <<colorCalls>>

storeVars == <<state, listeners, debounceTimer, localStorage, now, unsubscription, received,
               storeCalls, lastCall, notifiedAt, writes>>

loaderVars == <<loader>>

nonDetectorVars == <<layoutVars, colorVars, storeVars, loaderVars>>

nonLayoutVars == <<detectorVars, colorVars, storeVars, loaderVars>>

nonColorVars == <<detectorVars, layoutVars, storeVars, loaderVars>>

nonStoreVars == <<detectorVars, layoutVars, colorVars, loaderVars>>

nonLoaderVars == <<detectorVars, layoutVars, colorVars, storeVars>>

vars == <<detectorVars, layoutVars, colorVars, storeVars, loaderVars>>

-----------------------------------------------------------------------------
(* Strings *)

Numeral == <<"0", "1", "2", "3", "4", "5", "6", "7", "8", "9">>

Num(i) == Numeral[i + 1]

EmptyStr == <<>>

startsWith(s, p) == Len(s) >= Len(p) /\ SubSeq(s, 1, Len(p)) = p

U_ == <<"u", "_">>

MEM_ == <<"mem", "_">>

mem(i) == MEM_ \o <<Num(i)>>

\* `u_${a}_${b}` with numeric partner ids (the form the loaders and tests use)
u(a, b) == U_ \o <<Num(a), "_", Num(b)>>

\* "u_mem_1_mem_2": the long form named in parseUnionId's comment
umem(a, b) == U_ \o mem(a) \o <<"_">> \o mem(b)

SetMin(S) == CHOOSE x \in S : \A y \in S : x <= y

SetMax(S) == CHOOSE x \in S : \A y \in S : x >= y

\* An empty map (new Map())
EmptyMap == [x \in {} |-> <<>>]

MapHas(m, k) == k \in DOMAIN m

MapSet(m, k, v) == [x \in (DOMAIN m) \cup {k} |-> IF x = k THEN v ELSE m[x]]

Range(s) == {s[i] : i \in 1..Len(s)}

-----------------------------------------------------------------------------
(* Input data: FamilyData objects handed to detectFamilies *)

\* Largest number of entries of data.links in the enumerated inputs
MaxLinks == 4

PersonUniverse == {1, 2, 3}


\* The partner edges a loader emits for these unions (member -> union) ...
PartnerEdges == <<
    <<mem(1), u(1, 0)>>, <<mem(1), u(1, 2)>>, <<mem(2), u(1, 2)>>, <<mem(2), u(2, 0)>> >>

\* ... and every child edge (union -> member), back edges included
ChildEdges == <<
    <<u(1, 0), mem(1)>>, <<u(1, 0), mem(2)>>, <<u(1, 0), mem(3)>>,
    <<u(1, 2), mem(1)>>, <<u(1, 2), mem(2)>>, <<u(1, 2), mem(3)>>,
    <<u(2, 0), mem(1)>>, <<u(2, 0), mem(2)>>, <<u(2, 0), mem(3)>> >>

EdgeSeq == PartnerEdges \o ChildEdges

RECURSIVE AscSeq(_)
AscSeq(S) == IF S = {} THEN <<>> ELSE <<SetMin(S)>> \o AscSeq(S \ {SetMin(S)})

MemSeq(ns) == [i \in 1..Len(ns) |-> mem(ns[i])]

Reverse(s) == [i \in 1..Len(s) |-> s[Len(s) + 1 - i]]

\* data.links: a sub-list of EdgeSeq of at most MaxLinks entries
LinkLists ==
    LET Pick(I) == LET idx == AscSeq(I) IN [i \in 1..Len(idx) |-> EdgeSeq[idx[i]]]
    IN  {Pick(I) : I \in {J \in SUBSET (1..Len(EdgeSeq)) : Cardinality(J) <= MaxLinks}}

\* Object.keys(data.members): some of the persons, in insertion order
KeyOrders ==
    UNION {{MemSeq(AscSeq(S)), MemSeq(Reverse(AscSeq(S)))} : S \in SUBSET PersonUniverse}

Starts == {EmptyStr, mem(1)}

MkData(s, k, sp, g, l) ==
    [start |-> s, keys |-> k, is_spouse |-> sp, gender |-> g, links |-> l]

AllMale(k) == [x \in Range(k) |-> "E"]

NoSpouse(k) == [x \in Range(k) |-> FALSE]

\* tests/familyDetection.test.ts "should handle families connected by marriage"
MarriageData ==
    LET k == <<mem(1), mem(2), mem(3), mem(4), mem(5)>>
    IN  MkData(mem(1), k, NoSpouse(k),
               [x \in Range(k) |-> IF x = mem(4) THEN "K" ELSE "E"],
               << <<mem(1), u(1, 0)>>, <<u(1, 0), mem(2)>>,
                  <<mem(3), u(3, 0)>>, <<u(3, 0), mem(4)>>,
                  <<mem(2), u(2, 4)>>, <<mem(4), u(2, 4)>>, <<u(2, 4), mem(5)>> >>)

\* tests/familyDetection.test.ts "should handle multiple generations"
GenerationsData ==
    LET k == <<mem(1), mem(2), mem(3), mem(4)>>
    IN  MkData(mem(1), k, NoSpouse(k),
               [x \in Range(k) |-> IF x = mem(4) THEN "K" ELSE "E"],
               << <<mem(1), u(1, 0)>>, <<u(1, 0), mem(2)>>,
                  <<mem(2), u(2, 0)>>, <<u(2, 0), mem(3)>>,
                  <<mem(3), u(3, 0)>>, <<u(3, 0), mem(4)>> >>)

\* tests/familyDetection.test.ts "should handle circular prevention (visited set)"
CircularData ==
    LET k == <<mem(1), mem(2)>>
    IN  MkData(mem(1), k, NoSpouse(k), AllMale(k),
               << <<mem(1), u(1, 0)>>, <<u(1, 0), mem(2)>>,
                  <<mem(2), u(2, 0)>>, <<u(2, 0), mem(1)>> >>)

\* tests/familyDetection.test.ts "should handle empty family data"
EmptyData == MkData(EmptyStr, <<>>, <<>>, <<>>, <<>>)

TestData == {MarriageData, GenerationsData, CircularData, EmptyData}

\* A root and a married-in partner (flagged is_spouse) whose union id is built
\* from the two member ids, "u_mem_1_mem_2": the form of parseUnionId's comment
\* and of the sheet loader ("u_" + fatherId + "_" + motherId)
LongFormData(spouse) ==
    LET k == <<mem(1), mem(2)>>
    IN  MkData(mem(1), k, [x \in Range(k) |-> x = spouse], AllMale(k),
               << <<mem(1), umem(1, 2)>>, <<mem(2), umem(1, 2)>> >>)

\* A single parent mem_1 with the union u_1_0 and the child mem_2, beside an
\* unrelated person whose id is mem_0
PlaceholderData ==
    LET k == <<mem(0), mem(1), mem(2)>>
    IN  MkData(mem(0), k, NoSpouse(k), AllMale(k),
               << <<mem(1), u(1, 0)>>, <<u(1, 0), mem(2)>> >>)

UnionFormData == {LongFormData(mem(1)), LongFormData(mem(2)), PlaceholderData}

MemberIds(d) == Range(d.keys)

\* data.members[id] is defined
HasMember(d, id) == id \in MemberIds(d)

-----------------------------------------------------------------------------
(* familyDetection.ts: helpers *)

\* childrenSet of findRootNodes: targets of union -> member links
ChildrenSet(d) ==
    {d.links[i][2] : i \in {j \in 1..Len(d.links) :
        startsWith(d.links[j][1], U_) /\ ~startsWith(d.links[j][2], U_)}}

\* Root discovery that forgets the is_spouse flag
NaturalRootsIgnoringSpouse(d) ==
    LET IsRoot(id) == id \notin ChildrenSet(d)
    IN  SelectSeq(d.keys, IsRoot)

\* The members that are no child and not flagged is_spouse, in key order
NaturalRoots(d) ==
    LET IsRoot(id) == id \notin ChildrenSet(d) /\ ~d.is_spouse[id]
    IN  SelectSeq(d.keys, IsRoot)

\* Root discovery without the fallback to data.start
findRootNodesNoFallback(d) == NaturalRoots(d)

findRootNodes(d) ==
    LET roots == NaturalRoots(d)
    IN  IF roots = <<>> /\ Len(d.keys) > 0
        THEN IF d.start # EmptyStr /\ HasMember(d, d.start) THEN <<d.start>> ELSE <<>>
        ELSE roots

\* The `to` ends of a list of links
Targets(ls) == [i \in 1..Len(ls) |-> ls[i][2]]

getUnionsForMember(d, memberId) ==
    LET IsUnionLink(l) == l[1] = memberId /\ startsWith(l[2], U_)
    IN  Targets(SelectSeq(d.links, IsUnionLink))

getChildrenOfUnion(d, unionId) ==
    LET IsChildLink(l) == l[1] = unionId /\ ~startsWith(l[2], U_)
    IN  Targets(SelectSeq(d.links, IsChildLink))

\* unionId.match(/u_(.+)_(.+)/): the leftmost "u_" after which a "_" splits two
\* non-empty groups; the first group is greedy, so the split is at the LAST such "_".
MatchStarts(s) ==
    {i \in 1..(Len(s) - 1) :
        /\ s[i] = "u"
        /\ s[i + 1] = "_"
        /\ \E k \in (i + 3)..(Len(s) - 1) : s[k] = "_"}

parseUnionId(unionId) ==
    IF MatchStarts(unionId) = {} THEN <<>>
    ELSE LET i == SetMin(MatchStarts(unionId))
             k == SetMax({j \in (i + 3)..(Len(unionId) - 1) : unionId[j] = "_"})
             id1 == SubSeq(unionId, i + 2, k - 1)
             id2 == SubSeq(unionId, k + 1, Len(unionId))
             partnerId1 == IF startsWith(id1, MEM_) THEN id1 ELSE MEM_ \o id1
             partnerId2 == IF startsWith(id2, MEM_) THEN id2 ELSE MEM_ \o id2
         IN  <<partnerId1, partnerId2>>

familyIdOf(rootId) == <<"family", "_">> \o rootId

RECURSIVE Flatten(_)
Flatten(ss) == IF ss = <<>> THEN <<>> ELSE Head(ss) \o Flatten(Tail(ss))

\* A traversal that follows only the first union of a member
ChildrenToPushFirstUnion(d, memberId, vis) ==
    LET NotVisited(c) == c \notin vis
        unionIds == getUnionsForMember(d, memberId)
    IN  IF unionIds = <<>> THEN <<>>
        ELSE SelectSeq(getChildrenOfUnion(d, Head(unionIds)), NotVisited)

\* The children one loop iteration of assignDescendants pushes for memberId,
\* vis being the visited set after memberId was added
ChildrenToPush(d, memberId, vis) ==
    LET NotVisited(c) == c \notin vis
        Pushes(unionId) == SelectSeq(getChildrenOfUnion(d, unionId), NotVisited)
    IN  LET unionIds == getUnionsForMember(d, memberId)
        IN  Flatten([i \in 1..Len(unionIds) |-> Pushes(unionIds[i])])

\* The partners assignSpouses passes to familyMembers.add: parsed from the unions
\* of a member, not the member itself, not '0', and present in data.members
ValidPartners(d, familyMembers) ==
    {p \in UNION {UNION {Range(parseUnionId(un)) : un \in Range(getUnionsForMember(d, m))} :
                  m \in familyMembers} :
        \E m \in familyMembers :
            \E un \in Range(getUnionsForMember(d, m)) :
                /\ p \in Range(parseUnionId(un))
                /\ p # m
                /\ p # <<"0">>
                /\ HasMember(d, p)}

\* assignSpouses taking the partners of every union of the data, not only of
\* the unions of the family's members
assignSpousesOfAnyUnion(d, familyMembers) ==
    familyMembers \cup
        {p \in MemberIds(d) :
            \E i \in 1..Len(d.links) :
                startsWith(d.links[i][2], U_) /\ p \in Range(parseUnionId(d.links[i][2]))}

assignSpouses(d, familyMembers) == familyMembers \cup ValidPartners(d, familyMembers)

-----------------------------------------------------------------------------
(* colorGenerator.ts *)

FAMILY_COLOR_PALETTE == <<
    "#8B5CF6", "#10B981", "#3B82F6", "#F59E0B", "#EF4444",
    "#14B8A6", "#F97316", "#EC4899", "#6366F1", "#84CC16" >>

HexDigit == <<"0", "1", "2", "3", "4", "5", "6", "7", "8", "9", "A", "B", "C", "D", "E", "F">>

\* n.toString(16).padStart(2, '0'), upper-cased, for 0 <= n <= 255
Hex2(n) == HexDigit[(n \div 16) + 1] \o HexDigit[(n % 16) + 1]

Abs(n) == IF n < 0 THEN -n ELSE n

\* hslToHex(h, 70, 55) with h = h2 / 2 degrees.  c = 0.63, m = 0.235 and
\* x = c * tn / 120 with tn = 120 * (1 - |(h / 60) % 2 - 1|); a channel is
\* Math.round((v + m) * 255) = floor((v + m) * 255 + 1/2), in units of 1/12000.
hslToHex(h2) ==
    LET tn == 120 - Abs((h2 % 240) - 120)
        Channel(v120) == (16065 * v120 + 719100 + 6000) \div 12000
        c == Channel(120)
        x == Channel(tn)
        z == Channel(0)
        rgb == IF h2 < 120 THEN <<c, x, z>>
               ELSE IF h2 < 240 THEN <<x, c, z>>
               ELSE IF h2 < 360 THEN <<z, c, x>>
               ELSE IF h2 < 480 THEN <<z, x, c>>
               ELSE IF h2 < 600 THEN <<x, z, c>>
               ELSE <<c, z, x>>
    IN  "#" \o Hex2(rgb[1]) \o Hex2(rgb[2]) \o Hex2(rgb[3])

\* The palette reused cyclically instead of generated hues
generateFamilyColorCycled(index) ==
    FAMILY_COLOR_PALETTE[(index % Len(FAMILY_COLOR_PALETTE)) + 1]

\* hue = (index * 137.5) % 360, kept in half degrees
generateFamilyColor(index) ==
    IF index < Len(FAMILY_COLOR_PALETTE)
    THEN FAMILY_COLOR_PALETTE[index + 1]
    ELSE hslToHex((index * 275) % 720)

-----------------------------------------------------------------------------
(* detectFamilies (lines 31-101): every root's descendants, then their spouses *)

\* Step 2 with every family given the colour of index 0
CreatedFamiliesOneColor(d, roots) ==
    LET Idx == SelectSeq([i \in 1..Len(roots) |-> i], LAMBDA i : HasMember(d, roots[i]))
    IN  [j \in 1..Len(Idx) |->
            [id |-> familyIdOf(roots[Idx[j]]),
             color |-> generateFamilyColor(0),
             rootMemberId |-> roots[Idx[j]],
             memberCount |-> 0]]

\* Step 2: one Family per root that exists in members; index counts all roots
CreatedFamilies(d, roots) ==
    LET Idx == SelectSeq([i \in 1..Len(roots) |-> i], LAMBDA i : HasMember(d, roots[i]))
    IN  [j \in 1..Len(Idx) |->
            [id |-> familyIdOf(roots[Idx[j]]),
             color |-> generateFamilyColor(Idx[j] - 1),
             rootMemberId |-> roots[Idx[j]],
             memberCount |-> 0]]

\* Step 5: invert the member sets, family by family in creation order
IndexOf(fams, sets) ==
    LET all == UNION {sets[i] : i \in 1..Len(fams)}
        Ids == [i \in 1..Len(fams) |-> i]
    IN  [m \in all |->
            LET In(i) == m \in sets[i]
                mine == SelectSeq(Ids, In)
            IN  [j \in 1..Len(mine) |-> fams[mine[j]].id]]

\* Step 6: familyColors.set(family.id, family.color), a later family overwriting
ColorsOf(fams) ==
    [id \in {fams[i].id : i \in 1..Len(fams)} |->
        fams[SetMax({j \in 1..Len(fams) : fams[j].id = id})].color]

scratch == <<fi, queue, visited, processed>>

\* getDefaultActiveFamilies has not been called
NotCalled ==
    [called |-> FALSE, currentNodeId |-> EmptyStr, memberToFamilies |-> EmptyMap, value |-> {}]

\* No layout call has returned a value
NoReturn == [op |-> "none", a |-> 0, b |-> 0, value |-> 0]

\* Step 1 reading a field of data.members[data.start] unchecked: a TypeError
\* when the start id names no member
FindRootsDereferencingStart ==
    /\ pc = "findRootNodes"
    /\ HasMember(data, data.start)
    /\ rootMemberIds' = findRootNodes(data)
    /\ pc' = IF findRootNodes(data) = <<>> THEN "done" ELSE "createFamilies"
    /\ UNCHANGED <<data, families, familyMemberSets, scratch, memberToFamilies,
                   memberBirthFamily, familyColors>>
    /\ UNCHANGED <<active, nonDetectorVars>>

\* Step 1 and the early return on no roots
FindRoots ==
    /\ pc = "findRootNodes"
    /\ rootMemberIds' = findRootNodes(data)
    /\ pc' = IF findRootNodes(data) = <<>> THEN "done" ELSE "createFamilies"
    /\ UNCHANGED <<data, families, familyMemberSets, scratch, memberToFamilies,
                   memberBirthFamily, familyColors>>
    /\ UNCHANGED <<active, nonDetectorVars>>

CreateFamilies ==
    /\ pc = "createFamilies"
    /\ families' = CreatedFamilies(data, rootMemberIds)
    /\ familyMemberSets' = [i \in 1..Len(families') |-> {}]
    /\ fi' = 1
    /\ pc' = "step3"
    /\ UNCHANGED <<data, rootMemberIds, queue, visited, processed, memberToFamilies,
                   memberBirthFamily, familyColors>>
    /\ UNCHANGED <<active, nonDetectorVars>>

\* Step 3: families.forEach(family => assignDescendants(...)): the call
CallAssignDescendants ==
    /\ pc = "step3"
    /\ IF fi <= Len(families)
       THEN /\ queue' = <<families[fi].rootMemberId>>
            /\ visited' = {}
            /\ processed' = <<>>
            /\ pc' = "assignDescendants"
            /\ fi' = fi
       ELSE /\ pc' = "step4"
            /\ fi' = 1
            /\ UNCHANGED <<queue, visited, processed>>
    /\ UNCHANGED <<data, rootMemberIds, families, familyMemberSets, memberToFamilies,
                   memberBirthFamily, familyColors>>
    /\ UNCHANGED <<active, nonDetectorVars>>

\* The loop without its visited set: neither the skip on dequeue nor the test on push
AssignDescendantsLoopNoVisited ==
    /\ pc = "assignDescendants"
    /\ queue # <<>>
    /\ LET memberId == Head(queue)
       IN  /\ visited' = visited
           /\ processed' = Append(processed, memberId)
           /\ familyMemberSets' = [familyMemberSets EXCEPT ![fi] = @ \cup {memberId}]
           /\ queue' = Tail(queue) \o ChildrenToPush(data, memberId, {})
    /\ UNCHANGED <<data, pc, rootMemberIds, families, fi, memberToFamilies,
                   memberBirthFamily, familyColors>>
    /\ UNCHANGED <<active, nonDetectorVars>>

\* One iteration of the while loop of assignDescendants
AssignDescendantsLoop ==
    /\ pc = "assignDescendants"
    /\ queue # <<>>
    /\ LET memberId == Head(queue)
       IN  IF memberId \in visited
           THEN /\ queue' = Tail(queue)
                /\ UNCHANGED <<visited, processed, familyMemberSets>>
           ELSE /\ visited' = visited \cup {memberId}
                /\ processed' = Append(processed, memberId)
                /\ familyMemberSets' =
                       [familyMemberSets EXCEPT ![fi] = @ \cup {memberId}]
                /\ queue' = Tail(queue) \o ChildrenToPush(data, memberId, visited')
    /\ UNCHANGED <<data, pc, rootMemberIds, families, fi, memberToFamilies,
                   memberBirthFamily, familyColors>>
    /\ UNCHANGED <<active, nonDetectorVars>>

\* The queue is empty: assignDescendants returns, forEach goes on
AssignDescendantsReturn ==
    /\ pc = "assignDescendants"
    /\ queue = <<>>
    /\ fi' = fi + 1
    /\ pc' = "step3"
    /\ UNCHANGED <<data, rootMemberIds, families, familyMemberSets, queue, visited,
                   processed, memberToFamilies, memberBirthFamily, familyColors>>
    /\ UNCHANGED <<active, nonDetectorVars>>

\* Step 4: families.forEach(family => assignSpouses(...))
AssignSpouses ==
    /\ pc = "step4"
    /\ IF fi <= Len(families)
       THEN /\ familyMemberSets' =
                   [familyMemberSets EXCEPT ![fi] = assignSpouses(data, @)]
            /\ fi' = fi + 1
            /\ pc' = pc
       ELSE /\ pc' = "step5"
            /\ UNCHANGED <<familyMemberSets, fi>>
    /\ UNCHANGED <<data, rootMemberIds, families, queue, visited, processed,
                   memberToFamilies, memberBirthFamily, familyColors>>
    /\ UNCHANGED <<active, nonDetectorVars>>

\* Steps 5 and 6: member counts, memberToFamilies, familyColors; return
\* A variant of membersSize that leaves the root out of the count
membersSizeWithoutRoot(members) == Cardinality(members) - 1

\* members.size of a family's member set (family.memberCount = members.size)
membersSize(members) == Cardinality(members)

BuildIndex ==
    /\ pc = "step5"
    /\ families' = [i \in 1..Len(families) |->
                       [families[i] EXCEPT !.memberCount = membersSize(familyMemberSets[i])]]
    /\ memberToFamilies' = IndexOf(families, familyMemberSets)
    /\ familyColors' = ColorsOf(families)
    /\ pc' = "done"
    /\ UNCHANGED <<data, rootMemberIds, familyMemberSets, scratch, memberBirthFamily>>
    /\ UNCHANGED <<active, nonDetectorVars>>

\* getDefaultActiveFamilies (lines 271-286); an undefined or empty currentNodeId
\* is the empty string
getDefaultActiveFamilies(fams, m2f, currentNodeId) ==
    IF /\ currentNodeId # EmptyStr
       /\ MapHas(m2f, currentNodeId)
       /\ Len(m2f[currentNodeId]) > 0
    THEN Range(m2f[currentNodeId])
    ELSE {fams[i].id : i \in 1..Len(fams)}

\* getDefaultActiveFamilies (lines 641-660): the birth family of the current
\* node, else the first family
getDefaultActiveFamiliesBirthFamily(fams, mbf, currentNodeId) ==
    IF /\ currentNodeId # EmptyStr
       /\ MapHas(mbf, currentNodeId)
       /\ mbf[currentNodeId] # EmptyStr
    THEN {mbf[currentNodeId]}
    ELSE IF Len(fams) > 0 THEN {fams[1].id} ELSE {}

\* An id that names no member
UnknownMember == mem(9)

\* The currentNodeId arguments: none, a member, an unknown id
CurrentNodeIds(d) == {EmptyStr, UnknownMember} \cup MemberIds(d)

\* The memberToFamilies arguments: the returned map, or that map with the
\* current node's list emptied
MembershipMaps(m2f, id) ==
    {m2f} \cup (IF MapHas(m2f, id) THEN {MapSet(m2f, id, <<>>)} ELSE {})

\* A returned set, with the current node and the membership map of the caller
ReturnedSet(id, m2f, v) ==
    [called |-> TRUE, currentNodeId |-> id, memberToFamilies |-> m2f, value |-> v]

\* A caller passes the result of detectFamilies to getDefaultActiveFamilies
GetDefaultActiveFamilies ==
    /\ pc = "done"
    /\ ~active.called
    /\ \E id \in CurrentNodeIds(data) : \E m2f \in MembershipMaps(memberToFamilies, id) :
          active' = ReturnedSet(id, m2f, getDefaultActiveFamilies(families, m2f, id))
    /\ UNCHANGED <<workVars, nonDetectorVars>>

GetDefaultActiveFamiliesBirthFamily ==
    /\ pc = "done"
    /\ ~active.called
    /\ \E id \in CurrentNodeIds(data) :
          active' = ReturnedSet(id, memberToFamilies,
                     getDefaultActiveFamiliesBirthFamily(families, memberBirthFamily, id))
    /\ UNCHANGED <<workVars, nonDetectorVars>>

\* The enumerated inputs: any key order, any is_spouse flags, any link list of the
\* universe.  data.start is read only by the fallback of findRootNodes, so it is
\* varied only where that fallback runs.
EnumInput(d, Keys, genders) ==
    \E k \in Keys :
        \E sp \in [Range(k) -> BOOLEAN], g \in [Range(k) -> genders], l \in LinkLists,
           s \in Starts :
            /\ d = MkData(s, k, sp, g, l)
            /\ s = EmptyStr => (NaturalRoots(d) = <<>> /\ Len(k) > 0)

-----------------------------------------------------------------------------
(* FamilyTreeStore: values, construction and notification.  The store      *)
(* never inspects an id, a listener or a data set, so these are opaque     *)
(* values here; null is the value Null, and a nullable object is a         *)
(* sequence of at most one element.                                        *)

Null == "null"

\* The delay of the setTimeout in persistState, in milliseconds
DEBOUNCE_MS == 500

\* No timeout is pending
NoTimer == -1

\* No action has called notify()
Never == -1

\* An item that localStorage does not hold, an item holding the JSON text of
\* an array of ids, and an item whose text JSON.parse rejects
NoItem == [text |-> "absent", ids |-> {}]

JSONstringify(ids) == [text |-> "array", ids |-> ids]

NotJSON == [text |-> "garbage", ids |-> {}]

\* String(boolean)
String(b) == IF b THEN "true" ELSE "false"

EmptyStorage ==
    [soyagaci_patrilineal_mode |-> Null,
     soyagaci_last_node |-> Null,
     soyagaci_active_families |-> NoItem]

\* The state the constructor builds from what localStorage holds
constructor(storage) ==
    [familyData |-> Null,
     fullFamilyData |-> [copyOf |-> Null],
     visibleNodes |-> {},
     highlightedNodes |-> {},
     selectedNodeId |-> Null,
     transform |-> <<>>,
     isPatrilineal |-> (storage.soyagaci_patrilineal_mode = "true"),
     isSidebarOpen |-> FALSE,
     isDarkMode |-> FALSE,
     families |-> <<>>,
     memberToFamilies |-> EmptyMap,
     familyColors |-> EmptyMap,
     activeFamilyIds |-> IF storage.soyagaci_active_families.text = "array"
                         THEN storage.soyagaci_active_families.ids
                         ELSE {}]

\* The functions that are subscribed
Listeners == {"listener1", "listener2"}

NeverInvoked == [count |-> 0, last |-> <<>>]

NoCall == [op |-> "none", transform |-> <<>>, familyId |-> Null, before |-> {}]

\* A store that has been constructed over an empty localStorage and not used
StoreIdle ==
    /\ state = constructor(EmptyStorage)
    /\ listeners = {}
    /\ debounceTimer = NoTimer
    /\ localStorage = EmptyStorage
    /\ now = 0
    /\ unsubscription = [l \in Listeners |-> "no"]
    /\ received = [l \in Listeners |-> NeverInvoked]
    /\ storeCalls = 0
    /\ lastCall = NoCall
    /\ notifiedAt = Never
    /\ writes = <<>>

\* What a call answers: a value it returns or an error it throws
Returns(v) == [kind |-> "returns", value |-> v]

Throws == [kind |-> "throws", value |-> Null]

NoResult == [kind |-> "pending", value |-> Null]

\* loadFamilyData has not been called
LoaderIdle ==
    loader = [googleSheetUrl |-> Null,
              isDatabaseAvailable |-> Returns("false"),
              fetchFamilyData |-> Returns(Null),
              loadFromGoogleSheet |-> Returns(Null),
              pc |-> "idle",
              consulted |-> <<>>,
              result |-> NoResult]

InitWork ==
    /\ pc = "findRootNodes"
    /\ rootMemberIds = <<>>
    /\ families = <<>>
    /\ familyMemberSets = <<>>
    /\ fi = 0
    /\ queue = <<>>
    /\ visited = {}
    /\ processed = <<>>
    /\ memberToFamilies = EmptyMap
    /\ memberBirthFamily = EmptyMap
    /\ familyColors = EmptyMap
    /\ active = NotCalled
    /\ nodes = <<>>
    /\ edges = {}
    /\ calls = <<>>
    /\ ret = NoReturn
    /\ colorCalls = <<>>
    /\ StoreIdle
    /\ LoaderIdle

\* The bilateral detector never reads gender
OnlyMale == {"E"}

Init ==
    /\ \/ EnumInput(data, KeyOrders, OnlyMale)
       \/ data \in TestData
       \/ data \in UnionFormData
    /\ InitWork

Next ==
    \/ FindRoots
    \/ CreateFamilies
    \/ CallAssignDescendants
    \/ AssignDescendantsLoop
    \/ AssignDescendantsReturn
    \/ AssignSpouses
    \/ BuildIndex
    \/ GetDefaultActiveFamilies

Spec == Init /\ [][Next]_vars

-----------------------------------------------------------------------------
(* detectFamilies (lines 319-393): the patrilineal variant *)

isPersonFatherInUnion(d, personId, partners) ==
    IF ~HasMember(d, personId) THEN FALSE
    ELSE IF d.gender[personId] = "E" THEN TRUE
    ELSE IF d.gender[personId] = "K" THEN FALSE
    ELSE TRUE   \* unknown gender: true with a female partner, and true by default

\* Children are pushed only for the unions in which memberId is the father
ChildrenToPushPatrilineal(d, memberId, vis) ==
    LET NotVisited(c) == c \notin vis
        Pushes(unionId) ==
            IF isPersonFatherInUnion(d, memberId, parseUnionId(unionId))
            THEN SelectSeq(getChildrenOfUnion(d, unionId), NotVisited)
            ELSE <<>>
    IN  LET unionIds == getUnionsForMember(d, memberId)
        IN  Flatten([i \in 1..Len(unionIds) |-> Pushes(unionIds[i])])

\* One iteration of the while loop of assignDescendantsPatrilineal
AssignDescendantsPatrilinealLoop ==
    /\ pc = "assignDescendants"
    /\ queue # <<>>
    /\ LET memberId == Head(queue)
       IN  IF memberId \in visited
           THEN /\ queue' = Tail(queue)
                /\ UNCHANGED <<visited, processed, familyMemberSets, memberBirthFamily>>
           ELSE /\ visited' = visited \cup {memberId}
                /\ processed' = Append(processed, memberId)
                /\ familyMemberSets' =
                       [familyMemberSets EXCEPT ![fi] = @ \cup {memberId}]
                /\ memberBirthFamily' =
                       IF MapHas(memberBirthFamily, memberId) THEN memberBirthFamily
                       ELSE MapSet(memberBirthFamily, memberId, families[fi].id)
                /\ queue' = Tail(queue) \o ChildrenToPushPatrilineal(data, memberId, visited')
    /\ UNCHANGED <<data, pc, rootMemberIds, families, fi, memberToFamilies, familyColors>>
    /\ UNCHANGED <<active, nonDetectorVars>>

\* memberBirthFamily after assignSpousesToFamilies(data, familyId, familyMembers, ...)
SpouseBirthFamilies(d, familyId, familyMembers, mbf) ==
    [x \in (DOMAIN mbf) \cup ValidPartners(d, familyMembers) |->
        IF MapHas(mbf, x) THEN mbf[x] ELSE familyId]

\* assignSpousesToFamilies pushing without its includes() tests
SpouseFamiliesNoIncludes(d, familyId, familyMembers, mbf, m2f) ==
    LET P == ValidPartners(d, familyMembers)
        mbf2 == SpouseBirthFamilies(d, familyId, familyMembers, mbf)
    IN  [x \in (DOMAIN m2f) \cup P |->
            LET old == IF MapHas(m2f, x) THEN m2f[x] ELSE <<>>
            IN  IF x \in P THEN Append(Append(old, mbf2[x]), familyId) ELSE old]

\* memberToFamilies after it: every valid partner lists its birth family, then familyId
SpouseFamilies(d, familyId, familyMembers, mbf, m2f) ==
    LET P == ValidPartners(d, familyMembers)
        mbf2 == SpouseBirthFamilies(d, familyId, familyMembers, mbf)
        Push(l, id) == IF id \in Range(l) THEN l ELSE Append(l, id)
    IN  [x \in (DOMAIN m2f) \cup P |->
            LET old == IF MapHas(m2f, x) THEN m2f[x] ELSE <<>>
            IN  IF x \in P THEN Push(Push(old, mbf2[x]), familyId) ELSE old]

\* Step 4: families.forEach(family => assignSpousesToFamilies(...))
AssignSpousesToFamilies ==
    /\ pc = "step4"
    /\ IF fi <= Len(families)
       THEN /\ familyMemberSets' =
                   [familyMemberSets EXCEPT ![fi] = assignSpouses(data, @)]
            /\ memberBirthFamily' =
                   SpouseBirthFamilies(data, families[fi].id, familyMemberSets[fi],
                                       memberBirthFamily)
            /\ memberToFamilies' =
                   SpouseFamilies(data, families[fi].id, familyMemberSets[fi],
                                  memberBirthFamily, memberToFamilies)
            /\ fi' = fi + 1
            /\ pc' = pc
       ELSE /\ pc' = "step5"
            /\ UNCHANGED <<familyMemberSets, fi, memberBirthFamily, memberToFamilies>>
    /\ UNCHANGED <<data, rootMemberIds, families, queue, visited, processed, familyColors>>
    /\ UNCHANGED <<active, nonDetectorVars>>

\* Step 5: a member without an entry gets its birth family alone
CompletedIndex(fams, sets, mbf, m2f) ==
    [m \in (DOMAIN m2f) \cup UNION {sets[i] : i \in 1..Len(fams)} |->
        IF MapHas(m2f, m) THEN m2f[m]
        ELSE IF MapHas(mbf, m) THEN <<mbf[m]>> ELSE <<>>]

BuildIndexPatrilineal ==
    /\ pc = "step5"
    /\ families' = [i \in 1..Len(families) |->
                       [families[i] EXCEPT !.memberCount = membersSize(familyMemberSets[i])]]
    /\ memberToFamilies' =
           CompletedIndex(families, familyMemberSets, memberBirthFamily, memberToFamilies)
    /\ familyColors' = ColorsOf(families)
    /\ pc' = "done"
    /\ UNCHANGED <<data, rootMemberIds, familyMemberSets, scratch, memberBirthFamily>>
    /\ UNCHANGED <<active, nonDetectorVars>>

KeyOrdersAsc == {MemSeq(AscSeq(S)) : S \in SUBSET PersonUniverse}

EitherGender == {"E", "K"}

InitPatrilineal ==
    /\ \/ EnumInput(data, KeyOrdersAsc, EitherGender)
       \/ data \in TestData
    /\ InitWork

NextPatrilineal ==
    \/ FindRoots
    \/ CreateFamilies
    \/ CallAssignDescendants
    \/ AssignDescendantsPatrilinealLoop
    \/ AssignDescendantsReturn
    \/ AssignSpousesToFamilies
    \/ BuildIndexPatrilineal
    \/ GetDefaultActiveFamiliesBirthFamily

SpecPatrilineal == InitPatrilineal /\ [][NextPatrilineal]_vars

-----------------------------------------------------------------------------
(* Termination of detectFamilies: the scheduler is the JavaScript run loop, which *)
(* runs a synchronous call to its end, so every enabled step is eventually taken. *)

InitFair ==
    /\ \/ EnumInput(data, KeyOrdersAsc, OnlyMale)
       \/ data \in TestData
    /\ InitWork

SpecFair == InitFair /\ [][Next]_vars /\ WF_vars(Next)

\* The input has a person who descends from their own union
HasCycle(d) ==
    \E i, j \in 1..Len(d.links) :
        /\ startsWith(d.links[i][2], U_)
        /\ d.links[j][1] = d.links[i][2]
        /\ ~startsWith(d.links[j][2], U_)
        /\ \/ d.links[j][2] = d.links[i][1]
           \/ \E a, b \in 1..Len(d.links) :
                /\ d.links[a][1] = d.links[j][2]
                /\ startsWith(d.links[a][2], U_)
                /\ d.links[b][1] = d.links[a][2]
                /\ d.links[b][2] = d.links[i][1]

NoRepeat(s) == \A i, j \in 1..Len(s) : i # j => s[i] # s[j]

\* C4: detectFamilies returns on every input, cyclic ones included, and no traversal
\* processes a person id twice.
C4_Terminates == [](NoRepeat(processed)) /\ <>(pc = "done")

\* A cyclic input was traversed to the end: the back edge was met and skipped
C4_Witness == pc = "done" /\ HasCycle(data) /\ Len(families) > 0 /\ Len(processed) > 1

-----------------------------------------------------------------------------
(* Properties of detectFamilies *)

Done == pc = "done"

\* A person -> union edge followed by a union -> person (child) edge
ChildStep(d, m, c) ==
    \E i, j \in 1..Len(d.links) :
        /\ d.links[i][1] = m
        /\ startsWith(d.links[i][2], U_)
        /\ d.links[j][1] = d.links[i][2]
        /\ ~startsWith(d.links[j][2], U_)
        /\ d.links[j][2] = c

LinkTargets(d) == {d.links[i][2] : i \in 1..Len(d.links)}

\* Everybody reachable from the persons of S by child steps
RECURSIVE Reach(_, _)
Reach(d, S) ==
    LET next == S \cup {c \in LinkTargets(d) : \E m \in S : ChildStep(d, m, c)}
    IN  IF next = S THEN S ELSE Reach(d, next)

InFamilyOf(m, rootId) ==
    MapHas(memberToFamilies, m) /\ familyIdOf(rootId) \in Range(memberToFamilies[m])

C3_DualMembership ==
    (Done /\ data = MarriageData) =>
        /\ Len(families) = 2
        /\ \A m \in {mem(2), mem(4), mem(5)} :
            /\ MapHas(memberToFamilies, m)
            /\ Len(memberToFamilies[m]) = 2
            /\ Range(memberToFamilies[m]) = {familyIdOf(mem(1)), familyIdOf(mem(3))}

C3_Witness == Done /\ data = MarriageData /\ Len(families) = 2

\* A member that is no child of any union and is not flagged is_spouse
Qualifies(d, id) ==
    /\ ~d.is_spouse[id]
    /\ ~\E i \in 1..Len(d.links) :
            /\ startsWith(d.links[i][1], U_)
            /\ ~startsWith(d.links[i][2], U_)
            /\ d.links[i][2] = id

FamiliesRootedAt(id) == {i \in 1..Len(families) : families[i].rootMemberId = id}

KeyIndex(d, id) == CHOOSE i \in 1..Len(d.keys) : d.keys[i] = id

\* Families follow the iteration order of the member ids
InKeyOrder ==
    \A i, j \in 1..Len(families) :
        i < j => KeyIndex(data, families[i].rootMemberId) < KeyIndex(data, families[j].rootMemberId)

\* C5 as stated: a person seeds exactly one family iff it is no child and not flagged
\* is_spouse, and the families are in key order.
C5_RootIff ==
    Done =>
        /\ \A id \in MemberIds(data) :
               Cardinality(FamiliesRootedAt(id)) = 1 <=> Qualifies(data, id)
        /\ \A i \in 1..Len(families) : HasMember(data, families[i].rootMemberId)
        /\ InKeyOrder

\* C5 as amended: the equivalence holds whenever some member qualifies; when none
\* does, the only family there can be is the one of data.start.
C5_RootIffUnlessFallback ==
    Done =>
        /\ \A i \in 1..Len(families) : HasMember(data, families[i].rootMemberId)
        /\ InKeyOrder
        /\ IF \E id \in MemberIds(data) : Qualifies(data, id)
           THEN \A id \in MemberIds(data) :
                    /\ Cardinality(FamiliesRootedAt(id)) <= 1
                    /\ Cardinality(FamiliesRootedAt(id)) = 1 <=> Qualifies(data, id)
           ELSE \A i \in 1..Len(families) :
                    Len(families) = 1 /\ families[i].rootMemberId = data.start

\* Two roots whose key order is not the ascending one, beside a flagged spouse
C5_Witness ==
    /\ Done
    /\ Len(families) = 2
    /\ data.keys = <<mem(3), mem(2), mem(1)>>
    /\ \E id \in MemberIds(data) : data.is_spouse[id]
    /\ ChildrenSet(data) = {}

NoNaturalRoot(d) == Len(d.keys) > 0 /\ \A id \in MemberIds(d) : ~Qualifies(d, id)

StartIsSoleRoot ==
    /\ Len(families) = 1
    /\ families[1].rootMemberId = data.start
    /\ families[1].memberCount >= 1
    /\ InFamilyOf(data.start, data.start)

\* C6 as stated: with members but no natural root, the start person is the sole
\* root and a non-empty family is returned.
C6_Fallback == (Done /\ NoNaturalRoot(data)) => StartIsSoleRoot

\* C6 as amended: that is so when data.start names a member; when it does not,
\* the result is empty.  In neither case is there a step that cannot be taken.
C6_FallbackIfStartIsMember ==
    /\ Done \/ ENABLED Next
    /\ (Done /\ NoNaturalRoot(data)) =>
           IF data.start # EmptyStr /\ HasMember(data, data.start)
           THEN StartIsSoleRoot
           ELSE families = <<>> /\ memberToFamilies = EmptyMap /\ familyColors = EmptyMap

\* The fallback ran on a cycle: everybody is somebody's child
C6_Witness ==
    /\ Done
    /\ NoNaturalRoot(data)
    /\ HasCycle(data)
    /\ StartIsSoleRoot
    /\ \A id \in MemberIds(data) : ~data.is_spouse[id]

-----------------------------------------------------------------------------
(* DagRelaxation: the layout relaxation engine.  Positions are integers.   *)

\* node_size[0], the minimum centre-to-centre spacing
NODE_SPACING_X == 100

RELAXATION_PASSES == 8

\* Weight of the combined pressure and gravity applied to x in one update
DAMPING == 2

Max(a, b) == IF a >= b THEN a ELSE b

\* get_pressure with the opposite sign convention: positive when the second
\* argument lies on the left
get_pressureAwayFromSecond(a, b, size) ==
    LET difference == a.x - b.x
        overlap == size - Abs(difference)
    IN  IF overlap <= 0 \/ difference = 0 THEN 0
        ELSE IF difference > 0 THEN overlap ELSE -overlap

\* Signed overlap: the magnitude is size minus the distance, the sign is the
\* side on which the second argument lies (direction -1: it is on the left)
get_pressure(a, b, size) ==
    LET difference == b.x - a.x
        overlap == size - Abs(difference)
    IN  IF overlap <= 0 \/ difference = 0 THEN 0
        ELSE IF difference > 0 THEN overlap ELSE -overlap

get_gravitySecondMinusFirst(a, b) == b.x - a.x

get_gravity(a, b) == a.x - b.x

\* The indices of S in ascending x order; equal x keeps the array order
RECURSIVE SortByX(_, _)
SortByX(ns, S) ==
    IF S = {} THEN <<>>
    ELSE LET i == CHOOSE i \in S : \A j \in S :
                      ns[i].x < ns[j].x \/ (ns[i].x = ns[j].x /\ i <= j)
         IN  <<i>> \o SortByX(ns, S \ {i})

\* The nodes of one level (same y), sorted by x
LevelOf(ns, y) == SortByX(ns, {i \in 1..Len(ns) : ns[i].y = y})

PosIn(order, i) == CHOOSE k \in 1..Len(order) : order[k] = i

\* x of the k-th node of a level after a sweep that puts every node at exactly
\* minSpacing after its predecessor
RECURSIVE PlacedCompact(_, _, _, _)
PlacedCompact(ns, order, k, minSpacing) ==
    IF k = 1 THEN ns[order[1]].x
    ELSE PlacedCompact(ns, order, k - 1, minSpacing) + minSpacing

\* x of the k-th node of a level after a sweep that measures from the
\* predecessor's position before the sweep
PlacedFromOriginal(ns, order, k, minSpacing) ==
    IF k = 1 THEN ns[order[1]].x
    ELSE Max(ns[order[k]].x, ns[order[k - 1]].x + minSpacing)

\* x of the k-th node of a level after a sweep that starts from x = 0 rather
\* than from the first node of the level
RECURSIVE PlacedFromOrigin(_, _, _, _)
PlacedFromOrigin(ns, order, k, minSpacing) ==
    IF k = 1 THEN Max(ns[order[1]].x, 0)
    ELSE Max(ns[order[k]].x, PlacedFromOrigin(ns, order, k - 1, minSpacing) + minSpacing)

\* x of the k-th node of a level after the left-to-right sweep: at least
\* minSpacing after the final position of its predecessor
RECURSIVE Placed(_, _, _, _)
Placed(ns, order, k, minSpacing) ==
    IF k = 1 THEN ns[order[1]].x
    ELSE Max(ns[order[k]].x, Placed(ns, order, k - 1, minSpacing) + minSpacing)

enforce_placementCompact(ns, minSpacing) ==
    [i \in 1..Len(ns) |->
        LET order == LevelOf(ns, ns[i].y)
        IN  [ns[i] EXCEPT !.x = PlacedCompact(ns, order, PosIn(order, i), minSpacing)]]

enforce_placementFromOriginal(ns, minSpacing) ==
    [i \in 1..Len(ns) |->
        LET order == LevelOf(ns, ns[i].y)
        IN  [ns[i] EXCEPT !.x = PlacedFromOriginal(ns, order, PosIn(order, i), minSpacing)]]

enforce_placement(ns, minSpacing) ==
    [i \in 1..Len(ns) |->
        LET order == LevelOf(ns, ns[i].y)
        IN  [ns[i] EXCEPT !.x = Placed(ns, order, PosIn(order, i), minSpacing)]]

\* The nodes structurally connected to node i; a pair naming a node that does
\* not exist contributes nothing
Connected(ns, es, i) ==
    {j \in 1..Len(ns) : j # i /\ (<<i, j>> \in es \/ <<j, i>> \in es)}

RECURSIVE Sum(_, _)
Sum(f, S) ==
    IF S = {} THEN 0
    ELSE LET j == CHOOSE j \in S : TRUE IN f[j] + Sum(f, S \ {j})

\* One node's update where a connection to a node that does not exist pulls
\* towards x = 0 instead of contributing nothing
RelaxedMissingAsOrigin(ns, es, order, k, size) ==
    LET i == order[k]
        nbrs == {order[m] : m \in {k - 1, k + 1} \cap (1..Len(order))}
        pressure == Sum([j \in nbrs |-> get_pressure(ns[j], ns[i], size)], nbrs)
        conn == Connected(ns, es, i)
        missing == {p \in es : i \in {p[1], p[2]} /\ ~({p[1], p[2]} \subseteq 1..Len(ns))}
        count == Cardinality(conn) + Cardinality(missing)
        gravity == IF count = 0 THEN 0
                   ELSE (Sum([j \in conn |-> get_gravity(ns[j], ns[i])], conn)
                            - Cardinality(missing) * ns[i].x) \div count
    IN  [ns EXCEPT ![i].x = @ + ((pressure + gravity) \div DAMPING)]

\* One node's update: pressure of its immediate neighbours in sorted order,
\* gravity towards the average x of its connected nodes, damped
Relaxed(ns, es, order, k, size) ==
    LET i == order[k]
        nbrs == {order[m] : m \in {k - 1, k + 1} \cap (1..Len(order))}
        pressure == Sum([j \in nbrs |-> get_pressure(ns[j], ns[i], size)], nbrs)
        conn == Connected(ns, es, i)
        gravity == IF conn = {} THEN 0
                   ELSE Sum([j \in conn |-> get_gravity(ns[j], ns[i])], conn)
                            \div Cardinality(conn)
    IN  [ns EXCEPT ![i].x = @ + ((pressure + gravity) \div DAMPING)]

\* One pass over a level, node after node
RECURSIVE RelaxPass(_, _, _, _, _)
RelaxPass(ns, es, order, k, size) ==
    IF k > Len(order) THEN ns
    ELSE RelaxPass(Relaxed(ns, es, order, k, size), es, order, k + 1, size)

RECURSIVE RelaxLevel(_, _, _, _, _)
RelaxLevel(ns, es, y, passes, size) ==
    IF passes = 0 THEN ns
    ELSE RelaxLevel(RelaxPass(ns, es, LevelOf(ns, y), 1, size), es, y, passes - 1, size)

\* The levels of the dag, top first
LevelsOf(ns) == AscSeq({ns[i].y : i \in 1..Len(ns)})

RECURSIVE RelaxLevels(_, _, _, _)
RelaxLevels(ns, es, ys, size) ==
    IF ys = <<>> THEN ns
    ELSE RelaxLevels(RelaxLevel(ns, es, Head(ys), RELAXATION_PASSES, size),
                     es, Tail(ys), size)

\* run without its closing correction pass
runWithoutClosingPass(ns, es, size) == RelaxLevels(ns, es, LevelsOf(ns), size)

run(ns, es, size) ==
    enforce_placement(RelaxLevels(ns, es, LevelsOf(ns), size), size)

\* Bounds of the enumerated layouts
MaxNodes == 3

MaxCalls == 2

Positions == {0, 10, 20, 50, 100, 200}

Depths == {0, 100}

\* No connection, or the first two nodes connected (parent and child, or the
\* partners of a union); with a single node the pair names a missing node
EdgeChoices == {{}, {<<1, 2>>}}

Returned(op, a, b, v) == [op |-> op, a |-> a.x, b |-> b.x, value |-> v]

\* The calls of get_pressure and get_gravity take the first two nodes, in
\* either order; every pair of positions occurs there
ProbedNodes == {1, 2} \cap (1..Len(nodes))

GetPressure ==
    /\ calls = <<>>
    /\ ret = NoReturn
    /\ \E i, j \in ProbedNodes :
        /\ i # j
        /\ ret' = Returned("get_pressure", nodes[i], nodes[j],
                           get_pressure(nodes[i], nodes[j], NODE_SPACING_X))
    /\ UNCHANGED <<nodes, edges, calls, nonLayoutVars>>

GetGravity ==
    /\ calls = <<>>
    /\ ret = NoReturn
    /\ \E i, j \in ProbedNodes :
        /\ i # j
        /\ ret' = Returned("get_gravity", nodes[i], nodes[j],
                           get_gravity(nodes[i], nodes[j]))
    /\ UNCHANGED <<nodes, edges, calls, nonLayoutVars>>

Completed(op, before, after) == [op |-> op, before |-> before, after |-> after]

EnforcePlacement ==
    /\ ret = NoReturn
    /\ Len(calls) < MaxCalls
    /\ nodes' = enforce_placement(nodes, NODE_SPACING_X)
    /\ calls' = Append(calls, Completed("enforce_placement", nodes, nodes'))
    /\ UNCHANGED <<edges, ret, nonLayoutVars>>

Run ==
    /\ ret = NoReturn
    /\ Len(calls) < MaxCalls
    /\ nodes' = run(nodes, edges, NODE_SPACING_X)
    /\ calls' = Append(calls, Completed("run", nodes, nodes'))
    /\ UNCHANGED <<edges, ret, nonLayoutVars>>

\* The detector is not running while the layout is computed
DetectorIdle ==
    /\ data = MkData(EmptyStr, <<>>, <<>>, <<>>, <<>>)
    /\ pc = "done"
    /\ rootMemberIds = <<>>
    /\ families = <<>>
    /\ familyMemberSets = <<>>
    /\ fi = 0
    /\ queue = <<>>
    /\ visited = {}
    /\ processed = <<>>
    /\ memberToFamilies = EmptyMap
    /\ memberBirthFamily = EmptyMap
    /\ familyColors = EmptyMap
    /\ active = NotCalled

\* The dag lists its nodes level by level, in any order of x within a level
InitLayout ==
    /\ DetectorIdle
    /\ \E n \in 0..MaxNodes :
        \E xs \in [1..n -> Positions], ys \in [1..n -> Depths] :
            /\ \A i, j \in 1..n : i < j => ys[i] <= ys[j]
            /\ nodes = [i \in 1..n |-> [x |-> xs[i], y |-> ys[i]]]
    /\ edges \in EdgeChoices
    /\ calls = <<>>
    /\ ret = NoReturn
    /\ colorCalls = <<>>
    /\ StoreIdle
    /\ LoaderIdle

NextLayout ==
    \/ GetPressure
    \/ GetGravity
    \/ EnforcePlacement
    \/ Run

SpecLayout == InitLayout /\ [][NextLayout]_vars

-----------------------------------------------------------------------------
(* Properties of the layout engine *)

SameLevelPairs(ns) ==
    {p \in (1..Len(ns)) \X (1..Len(ns)) : p[1] # p[2] /\ ns[p[1]].y = ns[p[2]].y}

NonOverlapping(ns, size) ==
    \A p \in SameLevelPairs(ns) : Abs(ns[p[1]].x - ns[p[2]].x) >= size

\* C1: after run() completes, any two nodes of one level (hence any two
\* sorted-adjacent ones) are at least the minimum spacing apart.
C1_NonOverlapAfterRun ==
    \A k \in 1..Len(calls) :
        calls[k].op = "run" => NonOverlapping(calls[k].after, NODE_SPACING_X)

\* run() has returned on three nodes of one level that overlapped pairwise
C1_Witness ==
    \E k \in 1..Len(calls) :
        /\ calls[k].op = "run"
        /\ Len(calls[k].before) = 3
        /\ \A i, j \in 1..3 :
              /\ calls[k].before[i].y = calls[k].before[j].y
              /\ Abs(calls[k].before[i].x - calls[k].before[j].x) < NODE_SPACING_X

ConsecutiveEnforce(k) ==
    /\ k \in 2..Len(calls)
    /\ calls[k].op = "enforce_placement"
    /\ calls[k - 1].op = "enforce_placement"

\* C7: enforcePlacement is idempotent: a second call right after the first
\* leaves every position as the first call left it.
C7_EnforceIdempotent ==
    \A k \in 2..Len(calls) : ConsecutiveEnforce(k) => calls[k].after = calls[k].before

\* Two calls in succession, the first of which moved a node
C7_Witness ==
    \E k \in 2..Len(calls) :
        /\ ConsecutiveEnforce(k)
        /\ calls[k - 1].after # calls[k - 1].before

\* The sorted-order predecessor of node i in its level before the call (0: none)
PredecessorOf(ns, i) ==
    LET order == LevelOf(ns, ns[i].y)
        k == PosIn(order, i)
    IN  IF k = 1 THEN 0 ELSE order[k - 1]

OnlyForward(before, after) ==
    \A i \in 1..Len(before) :
        LET p == PredecessorOf(before, i)
        IN  /\ after[i].x >= before[i].x
            /\ after[i].y = before[i].y
            /\ p = 0 => after[i].x = before[i].x
            /\ (p # 0 /\ before[i].x >= after[p].x + NODE_SPACING_X)
                   => after[i].x = before[i].x

\* C8: enforcePlacement never decreases an x, keeps the first node of every
\* level where it is, and keeps every node that is already the minimum
\* spacing to the right of its predecessor's final position.
C8_EnforceOnlyForward ==
    \A k \in 1..Len(calls) :
        calls[k].op = "enforce_placement" => OnlyForward(calls[k].before, calls[k].after)

\* A call that moved one node forward and left a well-spaced later node alone
C8_Witness ==
    \E k \in 1..Len(calls) :
        /\ calls[k].op = "enforce_placement"
        /\ \E i, j \in 1..Len(calls[k].before) :
              /\ calls[k].after[i].x > calls[k].before[i].x
              /\ PredecessorOf(calls[k].before, j) # 0
              /\ calls[k].after[j].x = calls[k].before[j].x

Shifts == {-150, 1000000}

Shift(ns, c) == [i \in 1..Len(ns) |-> [ns[i] EXCEPT !.x = @ + c]]

OverlappingTriple ==
    /\ Len(calls) >= 1
    /\ calls[1].op = "run"
    /\ edges = {}
    /\ Len(calls[1].before) = 3
    /\ calls[1].before[1].x = 0
    /\ calls[1].before[2].x = 10
    /\ calls[1].before[3].x = 20
    /\ \A i \in 1..3 : calls[1].before[i].y = calls[1].before[1].y

ConsecutiveGaps(ns) ==
    \A i \in 1..(Len(ns) - 1) : ns[i + 1].x - ns[i].x >= NODE_SPACING_X

-----------------------------------------------------------------------------
(* Properties of the returned index *)

\* Position of a family id in the family list (creation order)
CreationIndex(id) == CHOOSE i \in 1..Len(families) : families[i].id = id

InCreationOrder(l) ==
    \A i, j \in 1..Len(l) : i < j => CreationIndex(l[i]) < CreationIndex(l[j])

AllFamilyIds == {families[i].id : i \in 1..Len(families)}

HasMembership(m2f, id) == id # EmptyStr /\ MapHas(m2f, id) /\ m2f[id] # <<>>

\* C14: getDefaultActiveFamilies returns exactly the family ids of the current
\* person if one is given and has at least one family membership, and the set
\* of all family ids in every other case.
C14_DefaultActive ==
    active.called =>
        IF HasMembership(active.memberToFamilies, active.currentNodeId)
        THEN active.value = Range(active.memberToFamilies[active.currentNodeId])
        ELSE active.value = AllFamilyIds

\* Called for a member of two families, and called without a current person
\* over two families
C14_Witness ==
    /\ active.called
    /\ Len(families) >= 2
    /\ \/ active.currentNodeId = EmptyStr
       \/ /\ HasMembership(active.memberToFamilies, active.currentNodeId)
          /\ Len(active.memberToFamilies[active.currentNodeId]) = 2

-----------------------------------------------------------------------------
(* generateFamilyColor called by index *)

\* Indices 0 .. ColorIndexLimit - 1 are generated
ColorIndexLimit == 100

\* Calls whose results are compared
MaxColorCalls == 2

GenerateFamilyColor ==
    /\ Len(colorCalls) < MaxColorCalls
    /\ \E index \in 0..(ColorIndexLimit - 1) :
          colorCalls' = Append(colorCalls,
                               [index |-> index, value |-> generateFamilyColor(index)])
    /\ UNCHANGED nonColorVars

InitColor ==
    /\ DetectorIdle
    /\ nodes = <<>>
    /\ edges = {}
    /\ calls = <<>>
    /\ ret = NoReturn
    /\ colorCalls = <<>>
    /\ StoreIdle
    /\ LoaderIdle

NextColor == GenerateFamilyColor

SpecColor == InitColor /\ [][NextColor]_vars

\* C15: generateFamilyColor is a function of the index: two calls with the
\* same index return the identical string, and two calls with different
\* indices in [0, 100) return different strings, palette entries and
\* generated colours alike.
C15_ColorsDistinct ==
    \A i, j \in 1..Len(colorCalls) :
        (colorCalls[i].index = colorCalls[j].index)
            <=> (colorCalls[i].value = colorCalls[j].value)

\* A palette index and the last generated index have both been asked for
C15_Witness ==
    /\ Len(colorCalls) >= 2
    /\ colorCalls[1].index < Len(FAMILY_COLOR_PALETTE)
    /\ colorCalls[2].index = ColorIndexLimit - 1

\* C16: for an empty member set detectFamilies returns an empty family list,
\* an empty memberToFamilies map and an empty familyColors map, and does not
\* throw.
C16_EmptyMembers ==
    data.keys = <<>> =>
        /\ Done \/ ENABLED Next
        /\ Done => /\ families = <<>>
                   /\ memberToFamilies = EmptyMap
                   /\ familyColors = EmptyMap

\* detectFamilies has returned for no members, a start id and dangling links
C16_Witness ==
    /\ Done
    /\ data.keys = <<>>
    /\ data.start # EmptyStr
    /\ data.links # <<>>

\* C17: run([]) completes and changes nothing; run([singleNode]) completes and
\* never leaves the node's x below its original value.
C17_EmptyAndSingleton ==
    \A k \in 1..Len(calls) :
        calls[k].op = "run" =>
            /\ Len(calls[k].before) = 0 => calls[k].after = <<>>
            /\ Len(calls[k].before) = 1 =>
                  /\ Len(calls[k].after) = 1
                  /\ calls[k].after[1].x >= calls[k].before[1].x

\* run() has returned on a single node whose dag names a missing relative
C17_Witness ==
    \E k \in 1..Len(calls) :
        /\ calls[k].op = "run"
        /\ Len(calls[k].before) = 1
        /\ calls[k].before[1].x = 50
        /\ edges # {}

-----------------------------------------------------------------------------
(* FamilyTreeStore: subscriptions, actions and the debounced persistence *)

\* Store actions called in one behaviour
MaxStoreCalls == 2

\* Time is followed up to this many milliseconds
MaxTime == 750

\* Lengths of time that pass between two events
Durations == {250, 500}

DataSets == {"data1"}

NodeIds == {Null, "mem_1"}

NodeSets == {{}, {"mem_1"}}

\* k is in tenths
Transforms == {[k |-> 10, x |-> 0, y |-> 0], [k |-> 11, x |-> 10, y |-> 10]}

FamilyIds == {"family_1", "family_2"}

FamilyLists == {<<>>, <<[id |-> "family_1"]>>, <<[id |-> "family_1"], [id |-> "family_2"]>>}

\* The maps that accompany a list of families (every family has a colour, and
\* mem_1 belongs to the first family)
MapsOf(fams) ==
    [memberToFamilies |-> IF fams = <<>> THEN EmptyMap
                          ELSE [m \in {"mem_1"} |-> <<fams[1].id>>],
     familyColors |-> [f \in {fams[i].id : i \in 1..Len(fams)} |-> "hsl"]]

\* What localStorage may hold when the store is constructed: nothing, a saved
\* mode, saved filters, or a mode and filters that JSON.parse rejects
Storages ==
    {EmptyStorage,
     [EmptyStorage EXCEPT !.soyagaci_patrilineal_mode = "true"],
     [EmptyStorage EXCEPT !.soyagaci_active_families =
                              JSONstringify({"family_2", "family_9"})],
     [EmptyStorage EXCEPT !.soyagaci_patrilineal_mode = "false",
                          !.soyagaci_active_families = NotJSON]}

\* listeners.forEach, with a listener skipped when the state equals the one
\* it was passed last
notifyChanges(rec, ls, st) ==
    [l \in Listeners |->
        IF l \in ls /\ rec[l].last # <<st>>
        THEN [count |-> rec[l].count + 1, last |-> <<st>>]
        ELSE rec[l]]

\* listeners.forEach(listener => listener(this.state))
notify(rec, ls, st) ==
    [l \in Listeners |->
        IF l \in ls THEN [count |-> rec[l].count + 1, last |-> <<st>>] ELSE rec[l]]

\* The end of a notifying action, with a pending timeout left to run instead
\* of being cleared and set again
NotifyingWithoutRestart(call, st) ==
    /\ state' = st
    /\ received' = notify(received, listeners, st)
    /\ debounceTimer' = IF debounceTimer = NoTimer THEN now + DEBOUNCE_MS ELSE debounceTimer
    /\ storeCalls' = storeCalls + 1
    /\ lastCall' = call
    /\ notifiedAt' = now
    /\ UNCHANGED <<listeners, localStorage, now, unsubscription, writes, nonStoreVars>>

\* The end of every notifying action: the state st has been assigned, notify()
\* invokes the listeners and persistState() restarts the timeout
NotifyingWith(call, st) ==
    /\ state' = st
    /\ received' = notify(received, listeners, st)
    /\ debounceTimer' = now + DEBOUNCE_MS
    /\ storeCalls' = storeCalls + 1
    /\ lastCall' = call
    /\ notifiedAt' = now
    /\ UNCHANGED <<listeners, localStorage, now, unsubscription, writes, nonStoreVars>>

\* A notifying action that takes no family id
Notifying(op, st) == NotifyingWith([op |-> op, transform |-> <<>>, familyId |-> Null, before |-> {}], st)

Subscribe ==
    \E l \in Listeners :
        /\ listeners' = listeners \cup {l}
        /\ unsubscription' = [unsubscription EXCEPT
                                 ![l] = IF @ = "no" THEN "no" ELSE "resubscribed"]
        /\ UNCHANGED <<state, debounceTimer, localStorage, now, received, storeCalls, lastCall,
                       notifiedAt, writes, nonStoreVars>>

\* The listeners whose unsubscribe function exists: subscribe has returned it
unsubscribes == listeners \cup {l \in Listeners : unsubscription[l] # "no"}

\* The function returned by subscribe, with the listener left in the set
UnsubscribeKeeping ==
    \E l \in unsubscribes :
        /\ unsubscription' = [unsubscription EXCEPT ![l] = "called"]
        /\ UNCHANGED <<state, listeners, debounceTimer, localStorage, now,
                       received, storeCalls, lastCall, notifiedAt, writes, nonStoreVars>>

\* The function returned by subscribe: () => this.listeners.delete(listener)
Unsubscribe ==
    \E l \in unsubscribes :
        /\ listeners' = listeners \ {l}
        /\ unsubscription' = [unsubscription EXCEPT ![l] = "called"]
        /\ UNCHANGED <<state, debounceTimer, localStorage, now, received,
                       storeCalls, lastCall, notifiedAt, writes, nonStoreVars>>

SetData ==
    \E d \in DataSets :
        /\ storeCalls < MaxStoreCalls
        /\ Notifying("setData",
                     [state EXCEPT !.familyData = d, !.fullFamilyData = [copyOf |-> d]])

SetPatrilineal ==
    \E isPatrilineal \in BOOLEAN :
        /\ storeCalls < MaxStoreCalls
        /\ Notifying("setPatrilineal", [state EXCEPT !.isPatrilineal = isPatrilineal])

SetSelectedNode ==
    \E nodeId \in NodeIds :
        /\ storeCalls < MaxStoreCalls
        /\ Notifying("setSelectedNode", [state EXCEPT !.selectedNodeId = nodeId])

SetSidebarOpen ==
    \E isOpen \in BOOLEAN :
        /\ storeCalls < MaxStoreCalls
        /\ Notifying("setSidebarOpen", [state EXCEPT !.isSidebarOpen = isOpen])

SetVisibleNodes ==
    \E ns \in NodeSets :
        /\ storeCalls < MaxStoreCalls
        /\ Notifying("setVisibleNodes", [state EXCEPT !.visibleNodes = ns])

\* setTransform with a call of notify() added
SetTransformNotifying ==
    \E transform \in Transforms :
        /\ storeCalls < MaxStoreCalls
        /\ state' = [state EXCEPT !.transform = <<transform>>]
        /\ received' = notify(received, listeners, state')
        /\ storeCalls' = storeCalls + 1
        /\ lastCall' = [op |-> "setTransform", transform |-> <<transform>>, familyId |-> Null, before |-> {}]
        /\ UNCHANGED <<listeners, debounceTimer, localStorage, now,
                       unsubscription, notifiedAt, writes, nonStoreVars>>

\* setTransform assigns and does not call notify()
SetTransform ==
    \E transform \in Transforms :
        /\ storeCalls < MaxStoreCalls
        /\ state' = [state EXCEPT !.transform = <<transform>>]
        /\ storeCalls' = storeCalls + 1
        /\ lastCall' = [op |-> "setTransform", transform |-> <<transform>>, familyId |-> Null, before |-> {}]
        /\ UNCHANGED <<listeners, debounceTimer, localStorage, now,
                       unsubscription, received, notifiedAt, writes, nonStoreVars>>

\* families.map(f => f.id) as a Set
IdsOf(fams) == {fams[i].id : i \in 1..Len(fams)}

\* setFamilies activating every family, whatever was active before
ValidatedActiveAll(activeFamilyIds, fams) == IdsOf(fams)

\* The active ids setFamilies leaves: the saved ones that still exist, or all
\* of them when none was saved or none still exists
ValidatedActive(activeFamilyIds, fams) ==
    IF Cardinality(activeFamilyIds) > 0
    THEN LET validFamilyIds == IdsOf(fams)
             filteredActive == {id \in activeFamilyIds : id \in validFamilyIds}
         IN  IF Cardinality(filteredActive) = 0 THEN validFamilyIds ELSE filteredActive
    ELSE IdsOf(fams)

SetFamilies ==
    \E fams \in FamilyLists :
        /\ storeCalls < MaxStoreCalls
        /\ Notifying("setFamilies",
                     [state EXCEPT !.families = fams,
                                   !.memberToFamilies = MapsOf(fams).memberToFamilies,
                                   !.familyColors = MapsOf(fams).familyColors,
                                   !.activeFamilyIds = ValidatedActive(@, fams)])

SetActiveFamilies ==
    \E familyIds \in SUBSET FamilyIds :
        /\ storeCalls < MaxStoreCalls
        /\ Notifying("setActiveFamilies", [state EXCEPT !.activeFamilyIds = familyIds])

\* toggleFamily that adds the id and never deletes it
ToggleFamilyAdding ==
    \E familyId \in FamilyIds :
        /\ storeCalls < MaxStoreCalls
        /\ NotifyingWith([op |-> "toggleFamily", transform |-> <<>>, familyId |-> familyId,
                          before |-> state.activeFamilyIds],
                         [state EXCEPT !.activeFamilyIds = @ \cup {familyId}])

ToggleFamily ==
    \E familyId \in FamilyIds :
        LET newActive == IF familyId \in state.activeFamilyIds
                         THEN state.activeFamilyIds \ {familyId}
                         ELSE state.activeFamilyIds \cup {familyId}
        IN  /\ storeCalls < MaxStoreCalls
            /\ NotifyingWith([op |-> "toggleFamily", transform |-> <<>>, familyId |-> familyId,
                              before |-> state.activeFamilyIds],
                             [state EXCEPT !.activeFamilyIds = newActive])

isFamilyActive(st, familyId) == familyId \in st.activeFamilyIds

ActivateAllFamilies ==
    /\ storeCalls < MaxStoreCalls
    /\ Notifying("activateAllFamilies",
                 [state EXCEPT !.activeFamilyIds = IdsOf(state.families)])

DeactivateAllFamilies ==
    /\ storeCalls < MaxStoreCalls
    /\ Notifying("deactivateAllFamilies", [state EXCEPT !.activeFamilyIds = {}])

\* The items the timeout callback leaves in localStorage: the three setItem
\* calls, made only if family data is loaded
Persisted(storage, st) ==
    IF st.familyData # Null
    THEN [soyagaci_patrilineal_mode |-> String(st.isPatrilineal),
          soyagaci_last_node |-> IF st.selectedNodeId \notin {Null, ""}
                                 THEN st.selectedNodeId
                                 ELSE storage.soyagaci_last_node,
          soyagaci_active_families |-> JSONstringify(st.activeFamilyIds)]
    ELSE storage

\* The callback of the timeout set by persistState
Persist ==
    /\ debounceTimer # NoTimer
    /\ now >= debounceTimer
    /\ debounceTimer' = NoTimer
    /\ localStorage' = Persisted(localStorage, state)
    /\ writes' = IF state.familyData # Null
                 THEN Append(writes, [at |-> now, items |-> localStorage'])
                 ELSE writes
    /\ UNCHANGED <<state, listeners, now, unsubscription, received, storeCalls, lastCall,
                   notifiedAt, nonStoreVars>>

\* Time passes, up to the moment the pending timeout is due
Tick ==
    \E d \in Durations :
        /\ now + d <= MaxTime
        /\ debounceTimer # NoTimer => now + d <= debounceTimer
        /\ now' = now + d
        /\ UNCHANGED <<state, listeners, debounceTimer, localStorage, 
                       unsubscription, received, storeCalls, lastCall, notifiedAt, writes,
                       nonStoreVars>>

\* The layout engine and the colour generator are not running
LayoutIdle ==
    /\ nodes = <<>>
    /\ edges = {}
    /\ calls = <<>>
    /\ ret = NoReturn
    /\ colorCalls = <<>>

InitStore ==
    /\ DetectorIdle
    /\ LayoutIdle
    /\ LoaderIdle
    /\ localStorage \in Storages
    /\ state = constructor(localStorage)
    /\ listeners = {}
    /\ debounceTimer = NoTimer
    /\ now = 0
    /\ unsubscription = [l \in Listeners |-> "no"]
    /\ received = [l \in Listeners |-> NeverInvoked]
    /\ storeCalls = 0
    /\ lastCall = NoCall
    /\ notifiedAt = Never
    /\ writes = <<>>

\* Listeners come and go while the actions that assign and notify are called.
\* Persist changes nothing that a listener is passed, so the calls are taken
\* here as they follow each other before the timeout is due.
NextStore ==
    \/ Subscribe
    \/ Unsubscribe
    \/ SetData
    \/ SetPatrilineal
    \/ SetSelectedNode
    \/ SetSidebarOpen
    \/ SetVisibleNodes
    \/ SetTransform
    \/ SetFamilies
    \/ SetActiveFamilies

SpecStore == InitStore /\ [][NextStore]_vars

\* The store is used, without listeners, while time passes
NextPersist ==
    \/ SetData
    \/ SetPatrilineal
    \/ SetSelectedNode
    \/ SetSidebarOpen
    \/ SetVisibleNodes
    \/ SetTransform
    \/ SetFamilies
    \/ SetActiveFamilies
    \/ ToggleFamily
    \/ ActivateAllFamilies
    \/ DeactivateAllFamilies
    \/ Persist
    \/ Tick

SpecPersist == InitStore /\ [][NextPersist]_vars

\* The actions that end with notify()
NotifyingActions ==
    {"setData", "setPatrilineal", "setSelectedNode", "setSidebarOpen", "setVisibleNodes",
     "setFamilies", "setActiveFamilies"}

\* C18: every call of setData, setPatrilineal, setSelectedNode, setSidebarOpen,
\* setVisibleNodes, setFamilies or setActiveFamilies invokes every listener
\* that is subscribed exactly once, with the state the call leaves, whether or
\* not the call changed a value, and invokes no listener that is not subscribed
C18_EveryListenerOnce ==
    [][(storeCalls' = storeCalls + 1 /\ lastCall'.op \in NotifyingActions)
        => \A l \in Listeners :
              received'[l] = IF l \in listeners
                             THEN [count |-> received[l].count + 1, last |-> <<state'>>]
                             ELSE received[l]]_vars

\* Two calls that assigned the values the state already held have invoked both
\* listeners twice
C18_Witness ==
    /\ storeCalls = 2
    /\ lastCall.op \in NotifyingActions
    /\ state = constructor(localStorage)
    /\ listeners = Listeners
    /\ \A l \in Listeners : received[l] = [count |-> 2, last |-> <<state>>]

\* A step that is a call of an action that ends with notify()
NotifyingCall == storeCalls' = storeCalls + 1 /\ lastCall'.op \in NotifyingActions

\* C19 as stated: once the function returned by subscribe(listener) has been
\* called, no later step invokes that listener, and every call of a notifying
\* action still invokes the other subscribed listeners
C19_NeverInvokedAgain ==
    [][/\ \A l \in Listeners :
             unsubscription[l] # "no" => received'[l] = received[l]
       /\ NotifyingCall =>
             \A l \in listeners :
                unsubscription[l] = "no" => received'[l].count = received[l].count + 1]_vars

\* C19: once the function returned by subscribe(listener) has been called, no
\* step invokes that listener until it is passed to subscribe again, and every
\* call of a notifying action still invokes each subscribed listener once
C19_NotInvokedUntilResubscribed ==
    [][/\ \A l \in Listeners :
             unsubscription[l] = "called" => received'[l] = received[l]
       /\ NotifyingCall =>
             \A l \in listeners : received'[l].count = received[l].count + 1]_vars

\* listener1 was notified once, then unsubscribed, and the next call notified
\* listener2 alone
C19_Witness ==
    /\ storeCalls = 2
    /\ lastCall.op \in NotifyingActions
    /\ unsubscription["listener1"] = "called"
    /\ listeners = {"listener2"}
    /\ received["listener1"].count = 1
    /\ received["listener1"].last # <<state>>
    /\ received["listener2"] = [count |-> 2, last |-> <<state>>]

\* C20: a call of setTransform leaves state.transform equal to the value it
\* was given, whatever the earlier calls gave, leaves every other field of
\* the state as it was and invokes no listener
C20_TransformOnly ==
    [][(storeCalls' = storeCalls + 1 /\ lastCall'.op = "setTransform")
        => /\ lastCall'.transform # <<>>
           /\ state' = [state EXCEPT !.transform = lastCall'.transform]
           /\ received' = received]_vars

\* Two calls of setTransform, the second with another value than the first,
\* while both listeners are subscribed
C20_Witness ==
    /\ storeCalls = 2
    /\ lastCall = [op |-> "setTransform", transform |-> <<[k |-> 11, x |-> 10, y |-> 10]>>,
                   familyId |-> Null, before |-> {}]
    /\ state = [constructor(localStorage) EXCEPT !.transform = lastCall.transform]
    /\ debounceTimer = NoTimer
    /\ listeners = Listeners
    /\ \A l \in Listeners : received[l] = NeverInvoked

-----------------------------------------------------------------------------
(* FamilyTreeStore: persistence *)

\* The writes made at time t
WritesAt(t) == {i \in 1..Len(writes) : writes[i].at = t}

\* The timeout set by the last notifying action has run
TimeoutRan == notifiedAt # Never /\ debounceTimer = NoTimer

\* A write happens only DEBOUNCE_MS after the last notifying action, hence
\* never inside a burst, and it stores the values the state then holds
WriteIsDebounced ==
    writes' # writes
    => /\ notifiedAt # Never
       /\ now = notifiedAt + DEBOUNCE_MS
       /\ Len(writes') = Len(writes) + 1
       /\ writes'[Len(writes')].at = now
       /\ localStorage' = writes'[Len(writes')].items
       /\ localStorage'.soyagaci_patrilineal_mode = String(state.isPatrilineal)
       /\ localStorage'.soyagaci_active_families = JSONstringify(state.activeFamilyIds)
       /\ state.selectedNodeId = "mem_1" => localStorage'.soyagaci_last_node = "mem_1"

C22_PatrilinealPersisted ==
    (lastCall.op = "setPatrilineal" /\ TimeoutRan)
        => localStorage.soyagaci_patrilineal_mode = String(state.isPatrilineal)

-----------------------------------------------------------------------------
(* loadFamilyData: Supabase first, Google Sheets as the fallback *)

\* googleSheetUrl?: string (undefined is Null)
SheetUrls == {Null, "", "https://docs.google.com/sheet.csv"}

DatabaseData == {"database_data"}

SheetData == {"sheet_data"}

\* What the three collaborators answer when they are called
Availabilities == {Returns("true"), Returns("false"), Throws}

Fetches == {Returns(d) : d \in DatabaseData \cup {Null}} \cup {Throws}

SheetLoads == {Returns(d) : d \in SheetData \cup {Null}} \cup {Throws}

\* if (x), for a string or null
Truthy(x) == x \notin {Null, ""}

\* if (data), taken as true for null as well
HasDataOrNull(answer) == answer.kind = "returns"

\* The call returned and if (data) holds
HasData(answer) == answer.kind = "returns" /\ Truthy(answer.value)

\* const isDbAvailable = await isDatabaseAvailable(); if (isDbAvailable)
CheckDatabase ==
    /\ loader.pc = "isDatabaseAvailable"
    /\ loader' = [loader EXCEPT
          !.consulted = Append(@, "isDatabaseAvailable"),
          !.pc = IF loader.isDatabaseAvailable = Returns("true")
                 THEN "fetchFamilyData"
                 ELSE "googleSheetUrl"]
    /\ UNCHANGED nonLoaderVars

\* const data = await databaseService.fetchFamilyData(); if (data) return data
\* (an error thrown is caught and logged)
FetchFamilyData ==
    /\ loader.pc = "fetchFamilyData"
    /\ loader' = [loader EXCEPT
          !.consulted = Append(@, "fetchFamilyData"),
          !.pc = IF HasData(loader.fetchFamilyData) THEN "done" ELSE "googleSheetUrl",
          !.result = IF HasData(loader.fetchFamilyData)
                     THEN loader.fetchFamilyData
                     ELSE @]
    /\ UNCHANGED nonLoaderVars

\* if (googleSheetUrl) { const data = await loadFromGoogleSheet(googleSheetUrl);
\* if (data) return data }; an error thrown is not caught; then return null
LoadFromGoogleSheet ==
    /\ loader.pc = "googleSheetUrl"
    /\ Truthy(loader.googleSheetUrl)
    /\ loader' = [loader EXCEPT
          !.consulted = Append(@, "loadFromGoogleSheet"),
          !.pc = "done",
          !.result = IF HasData(loader.loadFromGoogleSheet) \/ loader.loadFromGoogleSheet = Throws
                     THEN loader.loadFromGoogleSheet
                     ELSE Returns(Null)]
    /\ UNCHANGED nonLoaderVars

\* No sheet url: return null
ReturnNull ==
    /\ loader.pc = "googleSheetUrl"
    /\ ~Truthy(loader.googleSheetUrl)
    /\ loader' = [loader EXCEPT !.pc = "done", !.result = Returns(Null)]
    /\ UNCHANGED nonLoaderVars

InitLoader ==
    /\ DetectorIdle
    /\ LayoutIdle
    /\ StoreIdle
    /\ \E url \in SheetUrls, available \in Availabilities, fetched \in Fetches,
          sheet \in SheetLoads :
          loader = [googleSheetUrl |-> url,
                    isDatabaseAvailable |-> available,
                    fetchFamilyData |-> fetched,
                    loadFromGoogleSheet |-> sheet,
                    pc |-> "isDatabaseAvailable",
                    consulted |-> <<>>,
                    result |-> NoResult]

NextLoader ==
    \/ CheckDatabase
    \/ FetchFamilyData
    \/ LoadFromGoogleSheet
    \/ ReturnNull

SpecLoader == InitLoader /\ [][NextLoader]_vars

\* Supabase yields data: the database is available and the fetch returns data
SupabaseYields ==
    /\ loader.isDatabaseAvailable = Returns("true")
    /\ \E d \in DatabaseData : loader.fetchFamilyData = Returns(d)

Consulted(source) == \E i \in 1..Len(loader.consulted) : loader.consulted[i] = source

\* C23: when the database is available and returns data, that data is
\* returned and the sheet loader is never called; when Supabase is
\* unavailable, returns null or throws, and a sheet url is given, what the
\* sheet loader yields is what loadFamilyData yields; the fetch is made only
\* when the database is available, and the sheet loader is called only after
\* Supabase was consulted and yielded no data
C23_SupabaseThenSheets ==
    /\ ~Consulted("loadFromGoogleSheet") \/ ~SupabaseYields
    /\ Consulted("loadFromGoogleSheet")
          => /\ loader.consulted[1] = "isDatabaseAvailable"
             /\ loader.isDatabaseAvailable = Returns("true") => Consulted("fetchFamilyData")
    /\ Consulted("fetchFamilyData")
          => /\ loader.consulted[1] = "isDatabaseAvailable"
             /\ loader.isDatabaseAvailable = Returns("true")
    /\ loader.pc = "done"
          => /\ SupabaseYields => loader.result = loader.fetchFamilyData
             /\ (~SupabaseYields /\ Truthy(loader.googleSheetUrl))
                   => /\ Consulted("loadFromGoogleSheet")
                      /\ loader.result = loader.loadFromGoogleSheet
             /\ (~SupabaseYields /\ ~Truthy(loader.googleSheetUrl))
                   => loader.result = Returns(Null)

\* The database was available, its fetch returned null, and the data of the
\* sheet loader was returned
C23_Witness ==
    /\ loader.pc = "done"
    /\ loader.consulted = <<"isDatabaseAvailable", "fetchFamilyData", "loadFromGoogleSheet">>
    /\ loader.fetchFamilyData = Returns(Null)
    /\ loader.result = Returns("sheet_data")

-----------------------------------------------------------------------------
(* Spouse assignment and the index of detectFamilies *)

\* The other members that have a person -> union edge into a union of m
CoPartners(d, m) ==
    {p \in MemberIds(d) \ {m} :
        \E un \in Range(getUnionsForMember(d, m)) : un \in Range(getUnionsForMember(d, p))}

\* C24: after detectFamilies, for every family F and every person m placed in
\* F by descent from its root, every other member that shares a union with m
\* lists F in memberToFamilies, for the union ids u_1_2 and u_mem_1_mem_2
C24_SpousesAssigned ==
    Done => \A r \in Range(rootMemberIds) :
               \A m \in Reach(data, {r}) :
                  \A p \in CoPartners(data, m) : InFamilyOf(p, r)

\* The roots from which m is reached by descent
RootsReaching(d, m) == {r \in Range(rootMemberIds) : m \in Reach(d, {r})}

\* m is a partner of q: the id of a union of q names m, or m has an edge
\* into a union of q
PartnerOf(d, m, q) ==
    /\ m # q
    /\ \/ m \in CoPartners(d, q)
       \/ \E un \in Range(getUnionsForMember(d, q)) : m \in Range(parseUnionId(un))

\* m is a partner of somebody who descends from a root other than r
MarriedIntoAnother(d, m, r) ==
    \E r2 \in Range(rootMemberIds) \ {r} :
        \E q \in Reach(d, {r2}) : PartnerOf(d, m, q)

ListedIn(familyId) ==
    {m \in DOMAIN memberToFamilies : familyId \in Range(memberToFamilies[m])}

-----------------------------------------------------------------------------
(* Family colours in the result of detectFamilies *)

\* The colours of the first ColorIndexLimit indices are pairwise different
FirstColorsDistinct ==
    \A i, j \in 0..(ColorIndexLimit - 1) :
        i # j => generateFamilyColor(i) # generateFamilyColor(j)

\* C27: the i-th family created (0-based) has colour generateFamilyColor(i),
\* for i < 10 the i-th palette entry; familyColors has exactly one entry per
\* family, mapping its id to the family's colour; the colours of different
\* families differ, as do those of any two of the first 100 indices.
C27_FamilyColors ==
    Done =>
        /\ \A i \in 1..Len(families) :
               /\ families[i].color = generateFamilyColor(i - 1)
               /\ i <= 10 => families[i].color = FAMILY_COLOR_PALETTE[i]
               /\ families[i].id \in DOMAIN familyColors
               /\ familyColors[families[i].id] = families[i].color
        /\ DOMAIN familyColors = {families[i].id : i \in 1..Len(families)}
        /\ Cardinality(DOMAIN familyColors) = Len(families)
        /\ \A i, j \in 1..Len(families) :
               i # j => families[i].color # families[j].color
        /\ FirstColorsDistinct

\* Two families: violet for the first, emerald for the second
C27_Witness ==
    /\ Done
    /\ Len(families) >= 2
    /\ families[1].color = "#8B5CF6"
    /\ families[2].color = "#10B981"
    /\ familyColors[families[2].id] = "#10B981"

-----------------------------------------------------------------------------
(* The placeholder partner of a single-parent union *)

\* A union id of the form u_X_0: `u_${rel.parent_id}_0`
PlaceholderUnion(unionId) ==
    /\ startsWith(unionId, U_)
    /\ Len(unionId) >= 4
    /\ SubSeq(unionId, Len(unionId) - 1, Len(unionId)) = <<"_", "0">>

\* m is a partner of q in a union of q that is not a single-parent union
PartnerInRealUnion(d, m, q) ==
    \E un \in Range(getUnionsForMember(d, q)) :
        /\ ~PlaceholderUnion(un)
        /\ m \in Range(parseUnionId(un))
        /\ m # q

\* C28: the placeholder '0' of a u_X_0 union is never treated as a person:
\* every member of a family descends from the family's root or is the
\* partner of such a descendant in a union that is not of the form u_X_0,
\* also when the data has a member with id mem_0.
C28_PlaceholderNotAPerson ==
    Done => \A i \in 1..Len(families) :
               \A m \in ListedIn(families[i].id) :
                   \/ m \in Reach(data, {families[i].rootMemberId})
                   \/ \E q \in Reach(data, {families[i].rootMemberId}) :
                          PartnerInRealUnion(data, m, q)

-----------------------------------------------------------------------------
(* The family filter of the store *)

\* C29: immediately after setFamilies(families, ...) activeFamilyIds is a
\* subset of the ids of the given families, non-empty whenever families is
\* non-empty: the previously active ids that still exist if there is one,
\* and otherwise all the family ids.
C29_ActiveAfterSetFamilies ==
    [][(storeCalls' = storeCalls + 1 /\ lastCall'.op = "setFamilies")
        => LET ids == {state'.families[i].id : i \in 1..Len(state'.families)}
               kept == state.activeFamilyIds \cap ids
           IN  /\ state'.activeFamilyIds \subseteq ids
               /\ state'.families # <<>> => state'.activeFamilyIds # {}
               /\ kept # {} => state'.activeFamilyIds = kept
               /\ kept = {} => state'.activeFamilyIds = ids]_vars

\* setFamilies with two families on a store whose saved filter names one of
\* them and one family that no longer exists: only the existing one is active
C29_Witness ==
    /\ lastCall.op = "setFamilies"
    /\ storeCalls = 1
    /\ localStorage.soyagaci_active_families = JSONstringify({"family_2", "family_9"})
    /\ Len(state.families) = 2
    /\ state.activeFamilyIds = {"family_2"}

\* C30: toggleFamily(id) flips the membership of id in activeFamilyIds and
\* leaves the membership of every other id as it was, so that a second
\* toggleFamily(id) right after the first restores the set the first one
\* found; after activateAllFamilies isFamilyActive is true for every family
\* and after deactivateAllFamilies it is false for every family.
C30_ToggleAndAll ==
    [][(storeCalls' = storeCalls + 1)
        => /\ lastCall'.op = "toggleFamily" =>
                  LET id == lastCall'.familyId
                      others == (FamilyIds \cup state.activeFamilyIds
                                           \cup state'.activeFamilyIds) \ {id}
                  IN  /\ id \in FamilyIds
                      /\ isFamilyActive(state', id) <=> ~isFamilyActive(state, id)
                      /\ \A o \in others :
                             isFamilyActive(state', o) <=> isFamilyActive(state, o)
                      /\ (lastCall.op = "toggleFamily" /\ lastCall.familyId = id)
                             => state'.activeFamilyIds = lastCall.before
           /\ lastCall'.op = "activateAllFamilies" =>
                  /\ state'.families = state.families
                  /\ \A i \in 1..Len(state'.families) :
                         isFamilyActive(state', state'.families[i].id)
           /\ lastCall'.op = "deactivateAllFamilies" =>
                  /\ state'.families = state.families
                  /\ \A i \in 1..Len(state'.families) :
                         ~isFamilyActive(state', state'.families[i].id)]_vars

\* The second of two toggleFamily('family_2') calls on a store constructed
\* with the saved filter {family_2, family_9}: the first call left
\* {family_9}, the second restores the saved set
C30_Witness ==
    /\ storeCalls = 2
    /\ lastCall.op = "toggleFamily"
    /\ lastCall.familyId = "family_2"
    /\ lastCall.before = {"family_9"}
    /\ state.families = <<>>
    /\ state.activeFamilyIds = {"family_2", "family_9"}
    /\ state.activeFamilyIds = constructor(localStorage).activeFamilyIds

====
